---- MODULE Spec2Model ----
(***************************************************************************)
(* Utility billing portal (src/portal.py): the users, customers and        *)
(* receipts tables of utility.db and the menu handlers that change them.   *)
(*                                                                         *)
(* Each action is one handler run to its return (or to the exception that  *)
(* leaves it).  The tables hold the COMMITTED contents of the database: a  *)
(* handler that leaves through an exception before conn.commit() loses its *)
(* connection, and SQLite discards what that connection wrote.             *)
(*                                                                         *)
(* Quantities: usage is in whole kWh, money in paise (1/100 rupee), time   *)
(* in whole seconds of the wall clock (the resolution of both strftime     *)
(* formats used by client_pay_bill).  A handler ends at its closing prompt *)
(* with its report on the console; Enter returns to the menu.              *)
(*                                                                         *)
(* Spec runs the handlers of one portal process.  SpecRoundTrip runs       *)
(* admin_export_to_csv and admin_bulk_load of the exported file.           *)
(* SpecConcurrent runs client_pay_bill in several processes on one         *)
(* utility.db, split at its Confirm prompt.                                *)
(***************************************************************************)
EXTENDS Integers, Sequences, FiniteSets, TLC

VARIABLES
    users,          \* table users: set of rows
    customers,      \* table customers: set of rows
    receipts,       \* table receipts: set of rows
    seqUsers,       \* sqlite_sequence entry of users (AUTOINCREMENT)
    seqCustomers,   \* sqlite_sequence entry of customers
    seqReceipts,    \* sqlite_sequence entry of receipts
    running,        \* the interpreter is inside main()'s loop
    screen,         \* what the console shows: the menu, or a handler's report
    export_file,    \* the contents of customer_export.csv, once written
    paying          \* per further session of the portal on the same utility.db:
                    \* the row its client_pay_bill has read and not yet paid

vars == <<users, customers, receipts, seqUsers, seqCustomers, seqReceipts,
          running, screen, export_file, paying>>

db == <<users, customers, receipts, seqUsers, seqCustomers, seqReceipts>>

-----------------------------------------------------------------------------
(* Bounds of the model *)

\* cap on every AUTOINCREMENT counter
MaxId == 2
\* cap on the number of rows of receipts
MaxReceipts == 2
\* number of further sessions of the portal, each in a process of its own
MaxSessions == 2
Sessions == 1..MaxSessions

-----------------------------------------------------------------------------
(* Values *)

\* SQL NULL / Python None.  Row ids and clock readings start at 1.
NULL == 0

\* CONFIG['COST_PER_KWH'] = 0.50 rupee, in paise
PaisePerKwh == 50

AdminEmail == "admin@portal.com"
AdminPassword == "admin"

\* e-mail texts typed at a prompt: two that match EMAIL_REGEX, one that does
\* not (no dot after the @), and the cancel word
ValidEmails == {"a@b.com", "b@c.com"}
EmailTexts == ValidEmails \cup {"bob@com", "cancel"}

\* re.match(EMAIL_REGEX, email), on the texts above
MatchesEmailRegex(email) == email \in ValidEmails \cup {AdminEmail}

NameTexts == {"Alice", "cancel"}
\* a password and its confirmation: accepted, too short, mistyped
PasswordPairs == {<<"secret1", "secret1">>, <<"short", "short">>, <<"secret1", "secret2">>}

\* kWh figures that can be typed or read from a file
Usages == {-1, 2}

\* A text typed where a number is expected
NumText(n) == [kind |-> "number", value |-> n]
JunkText == [kind |-> "text", value |-> 0]
CancelText == [kind |-> "cancel", value |-> 0]

\* int(s) / float(s) raise ValueError unless the text is a numeral
IsNumeral(t) == t.kind = "number"

UsageTexts == {NumText(u) : u \in Usages} \cup {JunkText}
IdTexts == {NumText(i) : i \in 1..MaxId} \cup {JunkText, CancelText}

\* bcrypt.hashpw(password, bcrypt.gensalt()): the salt is embedded in the digest
Salts == {"salt1"}
hash_password(password, salt) == [salt |-> salt, digest |-> <<salt, password>>]

\* a variant of the check below that accepts every password
CheckPasswordAny(password, hashed) == TRUE

\* bcrypt.checkpw(password, hashed)
check_password(password, hashed) == hashed.digest = <<hashed.salt, password>>

-----------------------------------------------------------------------------
(* Rows *)

UserRow(id, email, password_hash, role) ==
    [id |-> id, email |-> email, password_hash |-> password_hash, role |-> role]

\* bill_due_date is never written by the handlers modelled here and is left out
CustomerRow(id, full_name, email, usage, bill_paid, user_id, last_payment_date) ==
    [id |-> id, full_name |-> full_name, email |-> email,
     monthly_usage_kwh |-> usage, bill_paid |-> bill_paid, user_id |-> user_id,
     last_payment_date |-> last_payment_date]

ReceiptRow(id, receipt_id, customer_id, amount_paid, payment_date) ==
    [id |-> id, receipt_id |-> receipt_id, customer_id |-> customer_id,
     amount_paid |-> amount_paid, payment_date |-> payment_date]

Max(a, b) == IF a >= b THEN a ELSE b

\* what a handler has printed when it waits at "Press Enter to return..."
Report(op, arg, res) == [op |-> op, arg |-> arg, res |-> res]

\* clear_screen() followed by the menu text: no report is on the console
Menu == Report("menu", NULL, "Menu")

\* the menu loop is waiting for a choice
AtMenu == running /\ screen = Menu

\* the handlers of admin_menu are reached through login_user and run_portal
\* with a users row whose role is 'admin'
AdminSession == \E u \in users : u.role = "admin"

\* a file name under which no file is found
NoFile == [exists |-> FALSE, cols |-> {}, rows |-> <<>>]

-----------------------------------------------------------------------------
(* setup_database, on a database file that does not exist yet; nothing has
   been exported *)

Init ==
    /\ users = {UserRow(1, AdminEmail, hash_password(AdminPassword, "salt1"), "admin")}
    /\ customers = {}
    /\ receipts = {}
    /\ seqUsers = 1
    /\ seqCustomers = 0
    /\ seqReceipts = 0
    /\ running = TRUE
    /\ screen = Menu
    /\ export_file = NoFile
    /\ paying = [s \in Sessions |-> {}]

-----------------------------------------------------------------------------
(* register_user *)

\* a variant of the INSERTs below in which the users row written before a
\* failing INSERT INTO customers is committed
RegisterInsertKeepsUser(email, full_name, password_hash) ==
    IF \E u \in users : u.email = email
    THEN /\ UNCHANGED db
         /\ screen' = Report("register", NULL, "AccountExists")
    ELSE /\ seqUsers < MaxId
         /\ users' = users \cup {UserRow(seqUsers + 1, email, password_hash, "client")}
         /\ seqUsers' = seqUsers + 1
         /\ UNCHANGED <<receipts, seqReceipts>>
         /\ IF \E c \in customers : c.email = email
            THEN /\ UNCHANGED <<customers, seqCustomers>>
                 /\ screen' = Report("register", NULL, "AccountExists")
            ELSE /\ seqCustomers < MaxId
                 /\ customers' = customers \cup
                        {CustomerRow(seqCustomers + 1, full_name, email, 0, 0,
                                     seqUsers + 1, NULL)}
                 /\ seqCustomers' = seqCustomers + 1
                 /\ screen' = Report("register", seqUsers + 1, "Created")

\* the two INSERTs and the commit of register_user; an IntegrityError of
\* either INSERT leaves the handler before the commit
RegisterInsert(email, full_name, password_hash) ==
    IF (\E u \in users : u.email = email) \/ (\E c \in customers : c.email = email)
    THEN /\ UNCHANGED db
         /\ screen' = Report("register", NULL, "AccountExists")
    ELSE /\ seqUsers < MaxId
         /\ seqCustomers < MaxId
         /\ users' = users \cup {UserRow(seqUsers + 1, email, password_hash, "client")}
         /\ seqUsers' = seqUsers + 1
         /\ customers' = customers \cup
                {CustomerRow(seqCustomers + 1, full_name, email, 0, 0, seqUsers + 1, NULL)}
         /\ seqCustomers' = seqCustomers + 1
         /\ UNCHANGED <<receipts, seqReceipts>>
         /\ screen' = Report("register", seqUsers + 1, "Created")

register_user(email, full_name, password, password_confirm, salt) ==
    /\ AtMenu
    /\ UNCHANGED <<export_file, paying>>
    /\ UNCHANGED running
    /\ IF email = "cancel"
       THEN UNCHANGED <<db, screen>>
       ELSE IF ~MatchesEmailRegex(email)
       THEN UNCHANGED db /\ screen' = Report("register", NULL, "InvalidInput")
       ELSE IF password # password_confirm \/ Len(password) < 6
       THEN UNCHANGED db /\ screen' = Report("register", NULL, "InvalidInput")
       ELSE RegisterInsert(email, full_name, hash_password(password, salt))

Register ==
    \E email \in EmailTexts, full_name \in NameTexts \ {"cancel"},
       passwords \in PasswordPairs, salt \in Salts :
        register_user(email, full_name, passwords[1], passwords[2], salt)

-----------------------------------------------------------------------------
(* login_user *)

\* what is typed at the login prompts
LoginEmails == ValidEmails \cup {AdminEmail, "cancel"}
LoginPasswords == {AdminPassword, "secret1"}

\* The report of login_user: on success the returned (user_id, user_email,
\* user_role), of which the id and the role are kept (the e-mail is the one
\* typed); otherwise the one message printed for both failures.
login_user(email, password) ==
    /\ AtMenu
    /\ UNCHANGED <<export_file, paying>>
    /\ UNCHANGED <<db, running>>
    /\ IF email = "cancel"
       THEN UNCHANGED screen
       ELSE IF \E u \in users : u.email = email
       THEN LET user_row == CHOOSE u \in users : u.email = email
            IN  IF check_password(password, user_row.password_hash)
                THEN screen' = Report("authenticate", user_row.id, user_row.role)
                ELSE screen' = Report("authenticate", NULL, "InvalidCredentials")
       ELSE screen' = Report("authenticate", NULL, "InvalidCredentials")

Login == \E email \in LoginEmails, password \in LoginPasswords : login_user(email, password)

-----------------------------------------------------------------------------
(* admin_create_admin_user *)

admin_create_admin_user(email, password, salt) ==
    /\ AtMenu
    /\ UNCHANGED <<export_file, paying>>
    /\ AdminSession
    /\ UNCHANGED <<customers, receipts, seqCustomers, seqReceipts, running>>
    /\ IF email = "cancel"
       THEN UNCHANGED <<users, seqUsers, screen>>
       ELSE IF ~MatchesEmailRegex(email) \/ Len(password) < 6
       THEN UNCHANGED <<users, seqUsers>>
            /\ screen' = Report("createAdmin", NULL, "InvalidInput")
       ELSE IF \E u \in users : u.email = email
       THEN UNCHANGED <<users, seqUsers>>
            /\ screen' = Report("createAdmin", NULL, "AccountExists")
       ELSE /\ seqUsers < MaxId
            /\ users' = users \cup
                   {UserRow(seqUsers + 1, email, hash_password(password, salt), "admin")}
            /\ seqUsers' = seqUsers + 1
            /\ screen' = Report("createAdmin", seqUsers + 1, "Created")

CreateAdmin ==
    \E email \in EmailTexts, password \in {"secret1", "short"}, salt \in Salts :
        admin_create_admin_user(email, password, salt)

-----------------------------------------------------------------------------
(* admin_add_customer *)

\* a variant of the handler below on a customers table without UNIQUE on email
AddCustomerNoUnique(name, email, usageText) ==
    /\ AtMenu
    /\ UNCHANGED <<export_file, paying>>
    /\ AdminSession
    /\ UNCHANGED <<users, receipts, seqUsers, seqReceipts, running>>
    /\ IF name = "cancel"
       THEN UNCHANGED <<customers, seqCustomers, screen>>
       ELSE IF ~MatchesEmailRegex(email) \/ ~IsNumeral(usageText)
       THEN UNCHANGED <<customers, seqCustomers>>
            /\ screen' = Report("addCustomerManual", NULL, "InvalidInput")
       ELSE /\ seqCustomers < MaxId
            /\ customers' = customers \cup
                   {CustomerRow(seqCustomers + 1, name, email, usageText.value, 0, NULL, NULL)}
            /\ seqCustomers' = seqCustomers + 1
            /\ screen' = Report("addCustomerManual", seqCustomers + 1, "Created")

admin_add_customer(name, email, usageText) ==
    /\ AtMenu
    /\ UNCHANGED <<export_file, paying>>
    /\ AdminSession
    /\ UNCHANGED <<users, receipts, seqUsers, seqReceipts, running>>
    /\ IF name = "cancel"
       THEN UNCHANGED <<customers, seqCustomers, screen>>
       ELSE IF ~MatchesEmailRegex(email) \/ ~IsNumeral(usageText)
       THEN UNCHANGED <<customers, seqCustomers>>
            /\ screen' = Report("addCustomerManual", NULL, "InvalidInput")
       ELSE IF \E c \in customers : c.email = email
       THEN UNCHANGED <<customers, seqCustomers>>
            /\ screen' = Report("addCustomerManual", NULL, "AccountExists")
       ELSE /\ seqCustomers < MaxId
            /\ customers' = customers \cup
                   {CustomerRow(seqCustomers + 1, name, email, usageText.value, 0, NULL, NULL)}
            /\ seqCustomers' = seqCustomers + 1
            /\ screen' = Report("addCustomerManual", seqCustomers + 1, "Created")

AddCustomer ==
    \E name \in NameTexts, email \in EmailTexts \ {"cancel"}, usageText \in UsageTexts :
        admin_add_customer(name, email, usageText)

-----------------------------------------------------------------------------
(* admin_update_usage *)

\* a variant of the UPDATE below without "bill_paid = 0"
UpdateUsageKeepsPaid(rows, customer_id, new_usage) ==
    {IF c.id = customer_id
     THEN [c EXCEPT !.monthly_usage_kwh = new_usage]
     ELSE c : c \in rows}

\* UPDATE customers SET monthly_usage_kwh = ?, bill_paid = 0 WHERE id = ?
UpdateUsageRows(rows, customer_id, new_usage) ==
    {IF c.id = customer_id
     THEN [c EXCEPT !.monthly_usage_kwh = new_usage, !.bill_paid = 0]
     ELSE c : c \in rows}

admin_update_usage(idText, usageText) ==
    /\ AtMenu
    /\ UNCHANGED <<export_file, paying>>
    /\ AdminSession
    /\ UNCHANGED <<users, receipts, seqUsers, seqCustomers, seqReceipts, running>>
    /\ IF idText.kind = "cancel"
       THEN UNCHANGED <<customers, screen>>
       ELSE IF ~IsNumeral(idText) \/ ~IsNumeral(usageText)
       THEN UNCHANGED customers /\ screen' = Report("updateUsage", NULL, "InvalidInput")
       ELSE IF ~\E c \in customers : c.id = idText.value
       THEN UNCHANGED customers
            /\ screen' = Report("updateUsage", NULL, "NotFound")
       ELSE /\ customers' = UpdateUsageRows(customers, idText.value, usageText.value)
            /\ screen' = Report("updateUsage", idText.value, "Updated")

UpdateUsage ==
    \E idText \in IdTexts, usageText \in UsageTexts : admin_update_usage(idText, usageText)

-----------------------------------------------------------------------------
(* admin_delete_customer *)

\* a variant of the handler without its DELETE FROM users
DeleteKeepsUser(rows, user_id_to_delete) == rows

\* the users table after the handler's DELETE FROM users, which runs only
\* when the selected user_id is truthy
DeleteLinkedUser(rows, user_id_to_delete) ==
    IF user_id_to_delete # NULL
    THEN {u \in rows : u.id # user_id_to_delete}
    ELSE rows

admin_delete_customer(idText, confirm) ==
    /\ AtMenu
    /\ UNCHANGED <<export_file, paying>>
    /\ AdminSession
    /\ UNCHANGED <<receipts, seqUsers, seqCustomers, seqReceipts, running>>
    /\ IF idText.kind = "cancel"
       THEN UNCHANGED <<users, customers, screen>>
       ELSE IF ~IsNumeral(idText)
       THEN UNCHANGED <<users, customers>>
            /\ screen' = Report("deleteCustomer", NULL, "InvalidInput")
       ELSE IF ~confirm
       THEN UNCHANGED <<users, customers>>
            /\ screen' = Report("deleteCustomer", NULL, "Cancelled")
       ELSE IF ~\E c \in customers : c.id = idText.value
       THEN UNCHANGED <<users, customers>>
            /\ screen' = Report("deleteCustomer", NULL, "NotFound")
       ELSE LET result == CHOOSE c \in customers : c.id = idText.value
            IN  /\ customers' = {c \in customers : c.id # idText.value}
                /\ users' = DeleteLinkedUser(users, result.user_id)
                /\ screen' = Report("deleteCustomer", idText.value, "Deleted")

DeleteCustomer ==
    \E idText \in IdTexts, confirm \in BOOLEAN : admin_delete_customer(idText, confirm)

-----------------------------------------------------------------------------
(* client_pay_bill *)

\* client_menu is reached through login_user and run_portal with a users row
\* whose role is 'client'
ClientSession(user_id) == \E u \in users : u.id = user_id /\ u.role = "client"

\* cursor.fetchone() of SELECT * FROM customers WHERE user_id = ?: a table
\* scan, which SQLite runs in rowid order
FetchByUser(rows, user_id) ==
    LET found == {c \in rows : c.user_id = user_id}
    IN  CHOOSE c \in found : \A d \in found : c.id <= d.id

\* a variant of the amount computed from the usage after its reset to 0
AmountDueAfterReset(usage) == 0 * PaisePerKwh

\* usage_paid_for * COST_PER_KWH
AmountDue(usage) == usage * PaisePerKwh

\* f"RPT-{datetime.now().strftime('%Y%m%d%H%M%S')}-{customer_id}": the stamp
\* has a fixed width, so the text determines both parts and is kept as the pair
ReceiptId(stamp, customer_id) == <<stamp, customer_id>>

\* a variant of the UPDATE below without "bill_paid = 1"
PayUpdateKeepsUnpaid(rows, today_date, user_id) ==
    {IF c.user_id = user_id
     THEN [c EXCEPT !.monthly_usage_kwh = 0, !.last_payment_date = today_date]
     ELSE c : c \in rows}

\* UPDATE customers SET bill_paid = 1, monthly_usage_kwh = 0.0,
\* last_payment_date = ? WHERE user_id = ?
PayUpdateRows(rows, today_date, user_id) ==
    {IF c.user_id = user_id
     THEN [c EXCEPT !.bill_paid = 1, !.monthly_usage_kwh = 0,
                    !.last_payment_date = today_date]
     ELSE c : c \in rows}

\* a variant of the INSERT below as INSERT OR REPLACE keyed by customer_id
PayReplaceReceipt(rows, seq, receipt_id, customer_id, amount_due, today_date) ==
    {r \in rows : r.customer_id # customer_id}
        \cup {ReceiptRow(seq + 1, receipt_id, customer_id, amount_due, today_date)}

\* INSERT INTO receipts (receipt_id, customer_id, amount_paid, payment_date)
PayInsertReceipt(rows, seq, receipt_id, customer_id, amount_due, today_date) ==
    rows \cup {ReceiptRow(seq + 1, receipt_id, customer_id, amount_due, today_date)}

\* a variant of the failure path in which the UPDATE outlives the exception
PayFailedKeepsUpdate(before, updated) == updated

\* The customers table after the try block of client_pay_bill is left through
\* an exception, given the table before the UPDATE and after it:
\* sqlite3.OperationalError is caught and rolled back; sqlite3.IntegrityError
\* is not caught, and the connection dies before conn.commit().
PayFailed(before, updated) == before

PayResult(rows, rcpts, seq, alive, res) ==
    [customers |-> rows, receipts |-> rcpts, seqReceipts |-> seq, running |-> alive,
     res |-> res]

\* client_pay_bill on the tables given: the tables it leaves and what it
\* reports.
\* confirm: the answer to "Do you want to confirm this payment?"
\* fault: the statement of the try block at which the store raises
\*        sqlite3.OperationalError, or "none"
\* today_date: the reading of datetime.now(), to the second
PayOutcome(rows, rcpts, seq, logged_in_user_id, confirm, fault, today_date) ==
    IF ~\E c \in rows : c.user_id = logged_in_user_id
    THEN PayResult(rows, rcpts, seq, TRUE, "NotFound")
    ELSE LET row == FetchByUser(rows, logged_in_user_id)
             customer_id == row.id
             amount_due == AmountDue(row.monthly_usage_kwh)
             receipt_id == ReceiptId(today_date, customer_id)
             updated == PayUpdateRows(rows, today_date, logged_in_user_id)
         IN  IF row.bill_paid # 0
             THEN PayResult(rows, rcpts, seq, TRUE, "AlreadyPaid")
             ELSE IF ~confirm
             THEN PayResult(rows, rcpts, seq, TRUE, "Cancelled")
             ELSE IF fault = "update"
             THEN PayResult(rows, rcpts, seq, TRUE, "StorageFailure")
             ELSE IF fault = "insert"
             THEN PayResult(PayFailed(rows, updated), rcpts, seq, TRUE, "StorageFailure")
             ELSE IF \E r \in rcpts : r.receipt_id = receipt_id
             THEN \* UNIQUE constraint failed: receipts.receipt_id
                  PayResult(PayFailed(rows, updated), rcpts, seq, FALSE, "Crashed")
             ELSE PayResult(updated,
                            PayInsertReceipt(rcpts, seq, receipt_id, customer_id,
                                             amount_due, today_date),
                            seq + 1, TRUE, "Paid")

client_pay_bill(logged_in_user_id, confirm, fault, today_date) ==
    LET out == PayOutcome(customers, receipts, seqReceipts, logged_in_user_id,
                          confirm, fault, today_date)
    IN  /\ AtMenu
        /\ UNCHANGED <<export_file, paying>>
        /\ ClientSession(logged_in_user_id)
        /\ out.seqReceipts <= MaxReceipts
        /\ customers' = out.customers
        /\ receipts' = out.receipts
        /\ seqReceipts' = out.seqReceipts
        /\ running' = out.running
        /\ screen' = Report("settle", logged_in_user_id, out.res)
        /\ UNCHANGED <<users, seqUsers, seqCustomers>>

\* The second of the latest payment on record.  Only the order and equality
\* of clock readings matter to the handlers, so seconds are numbered by the
\* payments that fell in them.
LatestStamp(rows, rcpts) ==
    LET stamps == {r.payment_date : r \in rcpts}
                  \cup {c.last_payment_date : c \in rows} \cup {NULL}
    IN  CHOOSE s \in stamps : \A t \in stamps : t <= s

\* datetime.now() does not run backwards: the reading is the second of the
\* latest payment on record (when there is one) or a later second
ClockReadings(rows, rcpts) ==
    {LatestStamp(rows, rcpts), LatestStamp(rows, rcpts) + 1} \ {NULL}

\* the answers and events tried: payment declined; payment confirmed, with
\* the store failing at the UPDATE, at the INSERT, or not at all
PayBill ==
    \E logged_in_user_id \in 1..MaxId, today_date \in ClockReadings(customers, receipts) :
        \/ client_pay_bill(logged_in_user_id, FALSE, "none", today_date)
        \/ \E fault \in {"none", "update", "insert"} :
                client_pay_bill(logged_in_user_id, TRUE, fault, today_date)

-----------------------------------------------------------------------------
(* admin_bulk_load *)

RequiredColumns == {"full_name", "email", "monthly_usage_kwh"}
TableColumns == RequiredColumns \cup {"id", "bill_paid", "user_id", "last_payment_date"}

\* A CSV file: whether it can be opened, its header, and its data rows.  A row
\* gives a value for every column of the header; an empty cell is NULL.
CsvFile(exists, cols, rows) == [exists |-> exists, cols |-> cols, rows |-> rows]

\* the value df.to_sql sends for one column of one row: the cell when the
\* header has the column, the column's DEFAULT of the CREATE TABLE otherwise
Cell(cols, row, col, default) == IF col \in cols THEN row[col] ELSE default

\* Texts that pd.read_csv (keep_default_na=True) reads as a missing value
\* (NaN), among them the empty cell; to_sql sends NaN as NULL.
NaTexts == {"", "NA"}
IsNa(text) == text \in NaTexts

\* a variant of the INSERTs below as INSERT OR IGNORE: a row that collides is
\* skipped and the rest of the batch is kept
RECURSIVE InsertRowsOrIgnore(_, _, _, _)
InsertRowsOrIgnore(table, seq, cols, rows) ==
    IF rows = <<>>
    THEN [ok |-> TRUE, table |-> table, seq |-> seq]
    ELSE LET row == Head(rows)
             given == Cell(cols, row, "id", NULL)
             id == IF given # NULL THEN given ELSE seq + 1
             new == CustomerRow(id, row.full_name, row.email, row.monthly_usage_kwh,
                                Cell(cols, row, "bill_paid", 0),
                                Cell(cols, row, "user_id", NULL),
                                Cell(cols, row, "last_payment_date", NULL))
         IN  IF IsNa(row.full_name) \/ \E c \in table : c.id = id \/ c.email = row.email
             THEN InsertRowsOrIgnore(table, seq, cols, Tail(rows))
             ELSE InsertRowsOrIgnore(table \cup {new}, Max(seq, id), cols, Tail(rows))

\* df.to_sql('customers', conn, if_exists='append', index=False): one INSERT
\* per row, all in one transaction.  The result is the table and the sequence
\* after the rows, or ok = FALSE at the first IntegrityError (PRIMARY KEY or
\* UNIQUE email, or NOT NULL full_name for a cell that pd.read_csv took for a
\* missing value), which rolls the whole batch back.
RECURSIVE InsertRows(_, _, _, _)
InsertRows(table, seq, cols, rows) ==
    IF rows = <<>>
    THEN [ok |-> TRUE, table |-> table, seq |-> seq]
    ELSE LET row == Head(rows)
             given == Cell(cols, row, "id", NULL)
             id == IF given # NULL THEN given ELSE seq + 1
             new == CustomerRow(id, row.full_name, row.email, row.monthly_usage_kwh,
                                Cell(cols, row, "bill_paid", 0),
                                Cell(cols, row, "user_id", NULL),
                                Cell(cols, row, "last_payment_date", NULL))
         IN  IF IsNa(row.full_name) \/ \E c \in table : c.id = id \/ c.email = row.email
             THEN [ok |-> FALSE, table |-> table, seq |-> seq]
             ELSE InsertRows(table \cup {new}, Max(seq, id), cols, Tail(rows))

admin_bulk_load(file) ==
    /\ AtMenu
    /\ UNCHANGED <<export_file, paying>>
    /\ AdminSession
    /\ UNCHANGED <<users, receipts, seqUsers, seqReceipts, running>>
    /\ IF ~file.exists
       THEN UNCHANGED <<customers, seqCustomers>>
            /\ screen' = Report("importCsv", NULL, "FileNotFound")
       ELSE IF file.cols = {}
       THEN UNCHANGED <<customers, seqCustomers>>
            /\ screen' = Report("importCsv", NULL, "EmptyFile")
       ELSE IF ~(RequiredColumns \subseteq file.cols)
       THEN UNCHANGED <<customers, seqCustomers>>
            /\ screen' = Report("importCsv", NULL, "SchemaInvalid")
       ELSE LET done == InsertRows(customers, seqCustomers, file.cols, file.rows)
            IN  IF ~done.ok
                THEN UNCHANGED <<customers, seqCustomers>>
                     /\ screen' = Report("importCsv", NULL, "DuplicateEmail")
                ELSE /\ done.seq <= MaxId
                     /\ customers' = done.table
                     /\ seqCustomers' = done.seq
                     /\ screen' = Report("importCsv", Len(file.rows), "Imported")

\* rows of the files tried: one name, the two e-mails, one usage figure
CsvRow(email, id, bill_paid, user_id) ==
    [full_name |-> "Alice", email |-> email, monthly_usage_kwh |-> 2, id |-> id,
     bill_paid |-> bill_paid, user_id |-> user_id, last_payment_date |-> NULL]

\* The files tried: a missing one, an empty one, one without the e-mail
\* column; one-row files with the required columns alone or with one more
\* column of the table (bill_paid, user_id or id); and two-row files with
\* the required columns.
CsvFiles ==
    {CsvFile(FALSE, {}, <<>>), CsvFile(TRUE, {}, <<>>),
     CsvFile(TRUE, {"full_name", "monthly_usage_kwh"}, <<>>)}
    \cup {CsvFile(TRUE, RequiredColumns, <<CsvRow(email, NULL, 0, NULL)>>) :
            email \in ValidEmails}
    \cup {CsvFile(TRUE, RequiredColumns \cup {"bill_paid"}, <<CsvRow(email, NULL, 1, NULL)>>) :
            email \in ValidEmails}
    \cup {CsvFile(TRUE, RequiredColumns \cup {"user_id"}, <<CsvRow(email, NULL, 0, user_id)>>) :
            email \in ValidEmails, user_id \in {1, 2}}
    \cup {CsvFile(TRUE, RequiredColumns \cup {"id"}, <<CsvRow(email, id, 0, NULL)>>) :
            email \in ValidEmails, id \in {1, 2}}
    \cup {CsvFile(TRUE, RequiredColumns,
                  <<CsvRow(e1, NULL, 0, NULL), CsvRow(e2, NULL, 0, NULL)>>) :
            e1 \in ValidEmails, e2 \in ValidEmails}

BulkLoad == \E file \in CsvFiles : admin_bulk_load(file)

-----------------------------------------------------------------------------
(* admin_export_to_csv *)

\* the rows of SELECT * FROM customers, in rowid order
RECURSIVE RowsInIdOrder(_)
RowsInIdOrder(rows) ==
    IF rows = {}
    THEN <<>>
    ELSE LET first == CHOOSE c \in rows : \A d \in rows : c.id <= d.id
         IN  <<first>> \o RowsInIdOrder(rows \ {first})

\* df.to_csv(export_filename, index=False): a header with every column of the
\* table, and each value written as its text (None as the empty cell)
ToCsv(rows) ==
    LET ordered == RowsInIdOrder(rows)
    IN  CsvFile(TRUE, TableColumns,
                [i \in 1..Len(ordered) |->
                    [full_name |-> ordered[i].full_name,
                     email |-> ordered[i].email,
                     monthly_usage_kwh |-> ordered[i].monthly_usage_kwh,
                     id |-> ordered[i].id,
                     bill_paid |-> ordered[i].bill_paid,
                     user_id |-> ordered[i].user_id,
                     last_payment_date |-> ordered[i].last_payment_date]])

admin_export_to_csv ==
    /\ AtMenu
    /\ AdminSession
    /\ UNCHANGED <<db, running>>
    /\ IF customers = {}
       THEN /\ UNCHANGED <<export_file, paying>>
            /\ screen' = Report("exportCsv", NULL, "NoData")
       ELSE /\ export_file' = ToCsv(customers)
            /\ UNCHANGED paying
            /\ screen' = Report("exportCsv", Cardinality(customers), "Exported")

\* admin_bulk_load given the name of the exported file
ImportExported == admin_bulk_load(export_file)

-----------------------------------------------------------------------------
(* main *)

\* main() started again on the existing utility.db: setup_database creates
\* the default admin unless its INSERT raises IntegrityError
setup_database(salt) ==
    /\ ~running
    /\ UNCHANGED <<export_file, paying>>
    /\ running' = TRUE
    /\ screen' = Menu
    /\ UNCHANGED <<customers, receipts, seqCustomers, seqReceipts>>
    /\ IF \E u \in users : u.email = AdminEmail
       THEN UNCHANGED <<users, seqUsers>>
       ELSE /\ seqUsers < MaxId
            /\ users' = users \cup
                   {UserRow(seqUsers + 1, AdminEmail, hash_password(AdminPassword, salt), "admin")}
            /\ seqUsers' = seqUsers + 1

Start == \E salt \in Salts : setup_database(salt)

\* Enter at a handler's closing prompt: back to the menu loop, which clears
\* the console
Return ==
    /\ running
    /\ screen # Menu
    /\ screen' = Menu
    /\ UNCHANGED <<db, running, export_file, paying>>

-----------------------------------------------------------------------------

\* utility.db is deleted and main() is run again: setup_database creates the
\* empty tables and the default admin.  Files other than the database stay.
NewDatabase ==
    /\ AtMenu
    /\ users' = {UserRow(1, AdminEmail, hash_password(AdminPassword, "salt1"), "admin")}
    /\ customers' = {}
    /\ receipts' = {}
    /\ seqUsers' = 1
    /\ seqCustomers' = 0
    /\ seqReceipts' = 0
    /\ UNCHANGED <<running, screen, export_file, paying>>

\* The handlers that change utility.db.  admin_export_to_csv, which only reads
\* it, is exercised by SpecRoundTrip below.
Next ==
    \/ Login
    \/ Register
    \/ CreateAdmin
    \/ AddCustomer
    \/ UpdateUsage
    \/ DeleteCustomer
    \/ PayBill
    \/ BulkLoad
    \/ Start
    \/ Return

Spec == Init /\ [][Next]_vars

-----------------------------------------------------------------------------
(* Properties *)

\* the row of table rows with the given id
RowById(rows, id) == CHOOSE c \in rows : c.id = id

\* C1: a customer has bill_paid set only if a receipt with its id exists, and
\* the receipt a payment has just written belongs to a customer that the same
\* payment marked paid.
C1_PaidOnlyWithReceipt ==
    /\ \A c \in customers :
           c.bill_paid # 0 => \E r \in receipts : r.customer_id = c.id
    /\ \A u \in 1..MaxId :
           screen = Report("settle", u, "Paid") =>
               \E r \in receipts :
                   /\ r.id = seqReceipts
                   /\ \E c \in customers : c.id = r.customer_id /\ c.bill_paid # 0

\* the report of a completed payment by user u
Paid(u) == Report("settle", u, "Paid")

\* C2: a second payment call right after a completed one (the same user, the
\* payment confirmed, in the same second or a later one) reports AlreadyPaid
\* and leaves the customers and receipts tables as they are; the completed
\* call has added exactly one receipt.
C2_SettleTwice ==
    [][\A u \in 1..MaxId :
          screen' = Paid(u) =>
              /\ Cardinality(receipts') = Cardinality(receipts) + 1
              /\ \A t \in ClockReadings(customers', receipts') :
                     LET again == PayOutcome(customers', receipts', seqReceipts',
                                             u, TRUE, "none", t)
                     IN  /\ again.res = "AlreadyPaid"
                         /\ again.customers = customers'
                         /\ again.receipts = receipts'
                         /\ again.seqReceipts = seqReceipts']_vars

\* the console reports AlreadyPaid for a user whose customer still stands as
\* its one payment left it
C2_Witness ==
    \E u \in 1..MaxId, c \in customers, r \in receipts :
        /\ screen = Report("settle", u, "AlreadyPaid")
        /\ receipts = {r}
        /\ c.user_id = u
        /\ r.customer_id = c.id
        /\ c.bill_paid = 1
        /\ c.monthly_usage_kwh = 0
        /\ c.last_payment_date = r.payment_date

\* C3: a completed payment by user u finds an unpaid customer linked to u,
\* leaves it with bill_paid = 1, usage 0 and the payment's date, and adds
\* exactly one receipt, for that customer, over its usage before the reset
\* times the rate, dated as the customer's new last_payment_date.
C3_SettleEffect ==
    [][\A u \in 1..MaxId :
          screen' = Paid(u) =>
              \E row \in customers, r \in receipts' :
                  /\ row.user_id = u
                  /\ row.bill_paid = 0
                  /\ receipts' \ receipts = {r}
                  /\ receipts \subseteq receipts'
                  /\ r.customer_id = row.id
                  /\ r.amount_paid = row.monthly_usage_kwh * PaisePerKwh
                  /\ r.payment_date \in ClockReadings(customers, receipts)
                  /\ RowById(customers', row.id) =
                         [row EXCEPT !.bill_paid = 1, !.monthly_usage_kwh = 0,
                                     !.last_payment_date = r.payment_date]]_vars

\* a customer paid right after registration (receipt over 0) and again after
\* a usage update (receipt over 2 kWh)
C3_Witness ==
    \E u \in 1..MaxId, c \in customers, r1 \in receipts, r2 \in receipts :
        /\ screen = Paid(u)
        /\ c.user_id = u
        /\ c.bill_paid = 1
        /\ c.monthly_usage_kwh = 0
        /\ r1.customer_id = c.id
        /\ r1.amount_paid = 0
        /\ r2.customer_id = c.id
        /\ r2.id = seqReceipts
        /\ r2.amount_paid = 2 * PaisePerKwh
        /\ r2.payment_date = c.last_payment_date

\* C4: a customer is paid after a step without having been paid before it
\* (or without having existed) only if the step is a completed payment by
\* the user that customer is linked to.
C4_PaidOnlyBySettle ==
    [][\A c \in customers' :
          (c.bill_paid # 0 /\ ~\E d \in customers : d.id = c.id /\ d.bill_paid # 0)
              => \E u \in 1..MaxId : screen' = Paid(u) /\ c.user_id = u]_vars

\* C5: updateUsage on an existing customer sets its usage to the new figure
\* and its bill_paid to 0 whatever it was, and changes no other customer, no
\* user and no receipt; on an id that no customer has it reports NotFound and
\* changes nothing.
C5_UpdateUsage ==
    [][\A idText \in IdTexts, usageText \in UsageTexts :
          (admin_update_usage(idText, usageText) /\ IsNumeral(idText)
             /\ IsNumeral(usageText)) =>
              IF \E c \in customers : c.id = idText.value
              THEN LET old == RowById(customers, idText.value)
                       new == RowById(customers', idText.value)
                   IN  /\ \E c \in customers' : c.id = idText.value
                       /\ new.monthly_usage_kwh = usageText.value
                       /\ new.bill_paid = 0
                       /\ new = [old EXCEPT !.monthly_usage_kwh = usageText.value,
                                            !.bill_paid = 0]
                       /\ customers' \ {new} = customers \ {old}
                       /\ receipts' = receipts
                       /\ users' = users
                       /\ screen' = Report("updateUsage", idText.value, "Updated")
              ELSE /\ screen' = Report("updateUsage", NULL, "NotFound")
                   /\ UNCHANGED db]_vars

\* a customer that was paid for (it carries a payment date) is Pending again
\* on the report of a usage update
C5_Witness ==
    \E c \in customers :
        /\ screen = Report("updateUsage", c.id, "Updated")
        /\ c.last_payment_date # NULL
        /\ c.bill_paid = 0
        /\ c.monthly_usage_kwh = 2
        /\ Cardinality(customers) = 2


\* C6: no customer has a negative monthly_usage_kwh.
C6_UsageNonNegative == \A c \in customers : c.monthly_usage_kwh >= 0

\* C7: no two receipts share a receipt_id, and a payment attempted in the
\* second of an earlier payment of the same customer completes (it does not
\* end in the uniqueness violation).
C7_SameSecondReceipts ==
    /\ \A r1 \in receipts, r2 \in receipts : r1.receipt_id = r2.receipt_id => r1 = r2
    /\ \A u \in 1..MaxId : screen # Report("settle", u, "Crashed")

\* C8: a payment that fails, at the UPDATE or at the INSERT of the receipt
\* (the receipt_id uniqueness violation included), leaves every customer and
\* the receipts table as they were before the call.
C8_SettleAllOrNothing ==
    [][\A u \in 1..MaxId :
          screen' \in {Report("settle", u, "StorageFailure"),
                       Report("settle", u, "Crashed")} =>
              /\ customers' = customers
              /\ receipts' = receipts
              /\ seqReceipts' = seqReceipts]_vars

\* a payment has ended in the uniqueness violation, after its UPDATE: the
\* customer is still unpaid with its usage, and holds an earlier receipt
C8_Witness ==
    \E u \in 1..MaxId, c \in customers, r \in receipts :
        /\ screen = Report("settle", u, "Crashed")
        /\ c.user_id = u
        /\ c.bill_paid = 0
        /\ c.monthly_usage_kwh = 2
        /\ r.customer_id = c.id

\* C9: a confirmed deleteCustomer on an existing id removes that customer
\* and the user its user_id names (no user when user_id is NULL), and nothing
\* else; on an id that no customer has it reports NotFound and changes
\* nothing.
C9_DeleteCustomer ==
    [][\A idText \in IdTexts :
          (admin_delete_customer(idText, TRUE) /\ IsNumeral(idText)) =>
              IF \E c \in customers : c.id = idText.value
              THEN LET old == RowById(customers, idText.value)
                   IN  /\ customers' = customers \ {old}
                       /\ users' = users \ {u \in users : old.user_id # NULL
                                                          /\ u.id = old.user_id}
                       /\ receipts' = receipts
                       /\ screen' = Report("deleteCustomer", idText.value, "Deleted")
              ELSE /\ screen' = Report("deleteCustomer", NULL, "NotFound")
                   /\ UNCHANGED db]_vars

\* a registered customer has been deleted, and its user with it, while an
\* unlinked customer remains
C9_Witness ==
    /\ \E id \in 1..MaxId : screen = Report("deleteCustomer", id, "Deleted")
    /\ seqUsers = 2
    /\ Cardinality(users) = 1
    /\ customers # {}

\* C10: every step keeps every receipt as it is; the receipts table grows
\* exactly in a completed payment, and then by one row.
C10_ReceiptsAppendOnly ==
    [][/\ receipts \subseteq receipts'
       /\ Cardinality(receipts' \ receipts) <= 1
       /\ (receipts' # receipts) <=> (\E u \in 1..MaxId : screen' = Paid(u))]_vars

\* the customer a receipt names has been deleted, and the receipt is there
C10_Witness ==
    /\ \E id \in 1..MaxId : screen = Report("deleteCustomer", id, "Deleted")
    /\ \E r \in receipts : ~\E c \in customers : c.id = r.customer_id

\* C11: a register that reports success has added exactly one users row,
\* with role client, and exactly one customers row, with the same e-mail and
\* the new user's id as user_id; a register that reports anything else (an
\* e-mail taken in customers alone included) leaves users and customers as
\* they were.
C11_RegisterAtomic ==
    [][screen'.op = "register" =>
          IF screen'.res = "Created"
          THEN \E u \in users', c \in customers' :
                   /\ users' \ users = {u}
                   /\ customers' \ customers = {c}
                   /\ users \subseteq users'
                   /\ customers \subseteq customers'
                   /\ u.role = "client"
                   /\ u.id = screen'.arg
                   /\ c.email = u.email
                   /\ c.user_id = u.id
          ELSE users' = users /\ customers' = customers]_vars

\* a register was refused for an e-mail that only a customers row holds: no
\* client user has ever been created
C11_Witness ==
    /\ screen = Report("register", NULL, "AccountExists")
    /\ seqUsers = 1
    /\ \A u \in users : u.role = "admin"
    /\ \E c \in customers : c.user_id = NULL

\* C12: no two customers rows share an e-mail; admin_add_customer with an
\* e-mail that a customers row holds reports AccountExists and leaves the
\* table as it is, and with any other valid e-mail (one that a users row
\* holds included) it creates the customer.
C12_CustomerEmailsUnique ==
    [][/\ \A c1 \in customers', c2 \in customers' : c1.email = c2.email => c1 = c2
       /\ \A name \in NameTexts \ {"cancel"}, email \in ValidEmails,
             usageText \in UsageTexts :
             (admin_add_customer(name, email, usageText) /\ IsNumeral(usageText)) =>
                 IF \E c \in customers : c.email = email
                 THEN /\ screen' = Report("addCustomerManual", NULL, "AccountExists")
                      /\ customers' = customers
                 ELSE /\ screen'.res = "Created"
                      /\ \E c \in customers' \ customers :
                             c.email = email /\ c.id = screen'.arg]_vars

\* admin_add_customer has just created a customer under the e-mail of an
\* existing user that has no customers row
C12_Witness ==
    \E c \in customers, u \in users :
        /\ screen = Report("addCustomerManual", c.id, "Created")
        /\ c.email = u.email
        /\ c.user_id = NULL
        /\ u.role = "admin"

\* the e-mail of some row of the file is held by a customers row or by
\* another row of the file
EmailCollides(rows, file) ==
    \/ \E i \in 1..Len(file.rows) : \E c \in rows : c.email = file.rows[i].email
    \/ \E i \in 1..Len(file.rows), j \in 1..Len(file.rows) :
           i # j /\ file.rows[i].email = file.rows[j].email

\* C13: admin_bulk_load of a file with the required columns in which some
\* row's e-mail collides, with a customers row or with another row of the
\* file, reports the failure and leaves the customers table and its sequence
\* exactly as they were.
C13_ImportAtomic ==
    [][\A file \in CsvFiles :
          (/\ admin_bulk_load(file)
           /\ file.exists
           /\ RequiredColumns \subseteq file.cols
           /\ EmailCollides(customers, file)) =>
              /\ screen' = Report("importCsv", NULL, "DuplicateEmail")
              /\ customers' = customers
              /\ seqCustomers' = seqCustomers]_vars

\* an import into a table that never held a row has failed: the file's second
\* row repeated the e-mail of its first, and the first is not there
C13_Witness ==
    /\ screen = Report("importCsv", NULL, "DuplicateEmail")
    /\ customers = {}
    /\ seqCustomers = 0

\* C14: every row that admin_bulk_load adds is stored unlinked and unpaid:
\* user_id NULL, bill_paid 0 and last_payment_date NULL, whatever columns
\* the file carries.
C14_ImportUnlinked ==
    [][screen'.op = "importCsv" =>
          \A c \in customers' \ customers :
              /\ c.user_id = NULL
              /\ c.bill_paid = 0
              /\ c.last_payment_date = NULL]_vars

-----------------------------------------------------------------------------
(* Export and re-import, from the ledgers that admin_add_customer can leave *)

\* names typed at admin_add_customer's prompt, which takes any text
LedgerNames == {"Alice", "NA"}

LedgerRows ==
    {CustomerRow(id, name, email, usage, 0, NULL, NULL) :
        id \in 1..MaxId, name \in LedgerNames, email \in ValidEmails, usage \in Usages}

\* non-empty customers tables of at most two rows, ids and e-mails distinct
Ledgers ==
    {{c} : c \in LedgerRows}
    \cup {{pair[1], pair[2]} :
               pair \in {pair \in LedgerRows \X LedgerRows :
                             /\ pair[1].id # pair[2].id
                             /\ pair[1].email # pair[2].email}}

InitRoundTrip ==
    /\ users = {UserRow(1, AdminEmail, hash_password(AdminPassword, "salt1"), "admin")}
    /\ customers \in Ledgers
    /\ receipts = {}
    /\ seqUsers = 1
    /\ seqCustomers \in {n \in 1..MaxId : \A c \in customers : c.id <= n}
    /\ seqReceipts = 0
    /\ running = TRUE
    /\ screen = Menu
    /\ export_file = NoFile
    /\ paying = [s \in Sessions |-> {}]

NextRoundTrip ==
    \/ admin_export_to_csv
    \/ NewDatabase
    \/ ImportExported
    \/ Return

SpecRoundTrip == InitRoundTrip /\ [][NextRoundTrip]_vars

\* the (full_name, email, monthly_usage_kwh) tuples of a customers table
Tuples(rows) == {<<c.full_name, c.email, c.monthly_usage_kwh>> : c \in rows}

\* the same tuples as a file's rows spell them
FileTuples(file) ==
    {<<file.rows[i].full_name, file.rows[i].email, file.rows[i].monthly_usage_kwh>> :
        i \in 1..Len(file.rows)}

\* C15: an export writes the tuples (full_name, email, monthly_usage_kwh) of
\* the customers table, and importing the exported file into an empty
\* customers table succeeds and leaves a table with exactly those tuples.
C15_RoundTrip ==
    [][/\ (admin_export_to_csv /\ customers # {}) =>
              FileTuples(export_file') = Tuples(customers)
       /\ (ImportExported /\ export_file.exists /\ customers = {}) =>
              /\ screen'.res = "Imported"
              /\ Tuples(customers') = FileTuples(export_file)]_vars

\* C16: login_user reports a session exactly when a users row has the e-mail
\* typed and its stored hash is the hash of the password typed, and the
\* session carries that row's id and role; an unknown e-mail and a wrong
\* password give the same report; no table changes.
C16_Authenticate ==
    [][\A email \in LoginEmails \ {"cancel"}, password \in LoginPasswords :
          login_user(email, password) =>
              /\ UNCHANGED db
              /\ IF \E u \in users :
                        /\ u.email = email
                        /\ u.password_hash = hash_password(password, u.password_hash.salt)
                 THEN \E u \in users : /\ u.email = email
                                       /\ screen' = Report("authenticate", u.id, u.role)
                 ELSE screen' = Report("authenticate", NULL, "InvalidCredentials")]_vars

\* a registered client has logged in
C16_Witness ==
    \E u \in users : u.role = "client" /\ screen = Report("authenticate", u.id, "client")

\* C17: the program is never ended by an exception: after every handler the
\* interpreter is still inside main()'s loop.
C17_NoAbort == running

\* C18: every users row is still there, as it was, after every step, except
\* a row of role client in a step of admin_delete_customer that deletes a
\* customer whose user_id is the row's id.
C18_UserRowsKept ==
    [][\A u \in users :
          \/ u \in users'
          \/ /\ u.role # "admin"
             /\ screen'.op = "deleteCustomer"
             /\ \E c \in customers \ customers' : c.user_id = u.id]_vars

\* C19: a completed payment changes one customers row only, the one its
\* receipt names; every other row is after the step as it was before.
C19_SettleScoped ==
    [][\A u \in 1..MaxId :
          screen' = Paid(u) =>
              \E r \in receipts' \ receipts :
                  \A c \in customers : c.id # r.customer_id => c \in customers']_vars

-----------------------------------------------------------------------------
(* client_pay_bill in sessions that run side by side on one utility.db.  The
   handler reads the row, waits at "Do you want to confirm this payment?",
   and only then writes; its connection holds no lock while it waits. *)

\* the handler in session s up to the Confirm prompt, for a row read unpaid
pay_read(s, logged_in_user_id) ==
    /\ paying[s] = {}
    /\ ClientSession(logged_in_user_id)
    /\ \E c \in customers : c.user_id = logged_in_user_id
    /\ LET row == FetchByUser(customers, logged_in_user_id)
       IN  /\ row.bill_paid = 0
           /\ paying' = [paying EXCEPT ![s] = {[user_id |-> logged_in_user_id,
                                                row |-> row]}]
    /\ UNCHANGED <<db, running, screen, export_file>>

\* the try block of the handler for the read p, on the tables as they are
\* when the payment is confirmed
PayCommit(rows, rcpts, seq, p, today_date) ==
    LET customer_id == p.row.id
        amount_due == AmountDue(p.row.monthly_usage_kwh)
        receipt_id == ReceiptId(today_date, customer_id)
        updated == PayUpdateRows(rows, today_date, p.user_id)
    IN  IF \E r \in rcpts : r.receipt_id = receipt_id
        THEN PayResult(PayFailed(rows, updated), rcpts, seq, FALSE, "Crashed")
        ELSE PayResult(updated,
                       PayInsertReceipt(rcpts, seq, receipt_id, customer_id,
                                        amount_due, today_date),
                       seq + 1, TRUE, "Paid")

\* the handler in session s from the answer to the Confirm prompt to its end
pay_confirm(s, confirm, today_date) ==
    /\ paying[s] # {}
    /\ LET p == CHOOSE p \in paying[s] : TRUE
           out == IF confirm
                  THEN PayCommit(customers, receipts, seqReceipts, p, today_date)
                  ELSE PayResult(customers, receipts, seqReceipts, TRUE, "Cancelled")
       IN  /\ out.seqReceipts <= MaxReceipts
           /\ customers' = out.customers
           /\ receipts' = out.receipts
           /\ seqReceipts' = out.seqReceipts
    /\ paying' = [paying EXCEPT ![s] = {}]
    /\ UNCHANGED <<users, seqUsers, seqCustomers, running, screen, export_file>>

PayRead == \E s \in Sessions, logged_in_user_id \in 1..MaxId : pay_read(s, logged_in_user_id)

PayConfirm ==
    \E s \in Sessions, confirm \in BOOLEAN,
       today_date \in ClockReadings(customers, receipts) :
        pay_confirm(s, confirm, today_date)

\* usage is updated only while no payment waits at its Confirm prompt
UpdateUsageBetweenPayments == (\A s \in Sessions : paying[s] = {}) /\ UpdateUsage

NextConcurrent ==
    \/ Register
    \/ UpdateUsageBetweenPayments
    \/ PayRead
    \/ PayConfirm
    \/ Return

SpecConcurrent == Init /\ [][NextConcurrent]_vars

\* C20: a payment that is confirmed, or declined, after another session has
\* paid the row it read (the row is by now marked paid) writes nothing: no
\* receipt is added and no customers row changes.
C20_InterleavedSettle ==
    [][\A s \in Sessions :
          (/\ paying[s] # {}
           /\ paying'[s] = {}
           /\ \E p \in paying[s], c \in customers :
                  c.id = p.row.id /\ c.bill_paid # 0) =>
              /\ receipts' = receipts
              /\ customers' = customers]_vars

-----------------------------------------------------------------------------

\* C21: every customers row with a user_id names a users row that exists,
\* and no two customers rows have the same user_id.
C21_LinkageWellFormed ==
    /\ \A c \in customers :
           c.user_id # NULL => \E u \in users : u.id = c.user_id
    /\ \A c1 \in customers, c2 \in customers :
           (c1.user_id # NULL /\ c1.user_id = c2.user_id) => c1 = c2

\* C22: the id of a deleted customer is not given to a later customer: when
\* a receipt names an id that no customers row has (its customer was
\* deleted), no step creates a customers row with that id.
C22_IdsNotReused ==
    [][\A r \in receipts :
          (~\E c \in customers : c.id = r.customer_id) =>
              ~\E c \in customers' : c.id = r.customer_id]_vars

====
